---- MODULE Spec2Model ----
(***************************************************************************)
(* Model of task3_modes.py: a Feistel block cipher whose round function    *)
(* and key schedule are built on BLAKE2s, the CBC and CFB modes over it,   *)
(* and the single-bit error propagation analysis.                          *)
(*                                                                         *)
(* Widths are scaled: the program works on 128-bit blocks and 64-bit       *)
(* halves; the model works on blocks of BLOCK_SIZE = 2 * HALF_BLOCK bits.  *)
(* Python integers are unbounded, so an argument may be wider than a       *)
(* block; the input sets below contain such values.  Only non-negative     *)
(* integers are modelled.                                                  *)
(***************************************************************************)
EXTENDS Integers, Sequences, FiniteSets, TLC

VARIABLES
    hsel,   \* which digest function BLAKE2s is
    op,     \* the function called last, "none" before any call
    key,    \* its key argument
    iv,     \* its iv argument
    arg,    \* its block, block sequence or round count argument
    bit,    \* the bit of the first ciphertext block flipped before the call, or -1
    ret,    \* what it returned or raised
    prev    \* the call made before it, when its argument was taken from that call

vars == <<hsel, op, key, iv, arg, bit, ret, prev>>

(***************************************************************************)
(* Widths and program constants                                            *)
(***************************************************************************)
\* bits of a half block (64 in the program)
HALF_BLOCK == 2
BLOCK_SIZE == 2 * HALF_BLOCK
HALF_MASK == 2^HALF_BLOCK - 1
ROUNDS == 8
\* index of the bit the analysis flips (17 in the program), within the block
BIT_TO_FLIP == 1
\* counter.to_bytes(2, "big"): the round counter is encoded on 16 bits
CounterBits == 16

(***************************************************************************)
(* Bounds of the model                                                     *)
(***************************************************************************)
\* longest block sequence handed to a mode or to an analysis
MaxLen == 3
\* largest round count handed to derive_subkeys
MaxRounds == 3
\* the digest function is one of MaxHash + 1 candidate functions
MaxHash == 1

(***************************************************************************)
(* Python integer operators on non-negative integers                       *)
(***************************************************************************)
RECURSIVE xor(_, _)
xor(a, b) ==
    IF a = 0 THEN b
    ELSE IF b = 0 THEN a
    ELSE (((a % 2) + (b % 2)) % 2) + 2 * xor(a \div 2, b \div 2)

RECURSIVE bit_count(_)
bit_count(a) == IF a = 0 THEN 0 ELSE (a % 2) + bit_count(a \div 2)

\* x & mask, for a mask of the form 2^n - 1
and_mask(x, mask) == x % (mask + 1)

\* x >> n
shr(x, n) == x \div (2^n)

\* x << n
shl(x, n) == x * (2^n)

\* results of a call: a returned value or a raised exception
Ok(v) == [exc |-> "none", val |-> v]
Raise(e) == [exc |-> e, val |-> <<>>]

\* int.to_bytes(n, "big") succeeds only for 0 <= value < 2^(8n)
to_bytes_fits(value, nbits) == value >= 0 /\ value < 2^nbits

(***************************************************************************)
(* hashlib.blake2s(data, digest_size).digest() read as an integer.  The    *)
(* hash is a deterministic function of the byte string (its length and its *)
(* content) about which the program assumes nothing else; hsel selects one *)
(* such function.  None of them is injective on the round function's       *)
(* inputs.                                                                 *)
(***************************************************************************)
blake2s(nbits, data, digest_bits) ==
    LET x == (data + nbits) % 8191
    IN  (((2 * hsel + 1) * x * x + 5 * x + 3 + hsel) \div (2 + hsel))
            % (2^digest_bits)

(***************************************************************************)
(* Key schedule and round function                                         *)
(***************************************************************************)
derive_subkeys(k, rounds) ==
    IF ~to_bytes_fits(k, BLOCK_SIZE) THEN Raise("OverflowError")
    ELSE IF rounds > 2^CounterBits THEN Raise("OverflowError")
    ELSE Ok([i \in 1..(IF rounds > 0 THEN rounds ELSE 0) |->
                blake2s(BLOCK_SIZE + CounterBits,
                        shl(k, CounterBits) + (i - 1), HALF_BLOCK)])

round_function(half_block, subkey) ==
    blake2s(2 * HALF_BLOCK, shl(half_block, HALF_BLOCK) + subkey, HALF_BLOCK)

Reverse(s) == [i \in 1..Len(s) |-> s[Len(s) + 1 - i]]

(***************************************************************************)
(* Feistel engine                                                          *)
(***************************************************************************)
RECURSIVE encrypt_rounds(_, _, _)
encrypt_rounds(left, right, subkeys) ==
    IF subkeys = <<>> THEN <<left, right>>
    ELSE encrypt_rounds(right,
             and_mask(xor(left, round_function(right, Head(subkeys))), HALF_MASK),
             Tail(subkeys))

RECURSIVE decrypt_rounds(_, _, _)
decrypt_rounds(left, right, subkeys) ==
    IF subkeys = <<>> THEN <<left, right>>
    ELSE decrypt_rounds(
             and_mask(xor(right, round_function(left, Head(subkeys))), HALF_MASK),
             left,
             Tail(subkeys))

split_left(block) == and_mask(shr(block, HALF_BLOCK), HALF_MASK)
split_right(block) == and_mask(block, HALF_MASK)
join(lr) == shl(and_mask(lr[1], HALF_MASK), HALF_BLOCK) + and_mask(lr[2], HALF_MASK)

encrypt_with(block, subkeys) ==
    join(encrypt_rounds(split_left(block), split_right(block), subkeys))

decrypt_with(block, subkeys) ==
    join(decrypt_rounds(split_left(block), split_right(block), Reverse(subkeys)))

encrypt_block(block, k) ==
    LET sk == derive_subkeys(k, ROUNDS)
    IN  IF sk.exc # "none" THEN sk ELSE Ok(encrypt_with(block, sk.val))

\* decrypt_block walking the schedule in encryption order
decrypt_block_unreversed(block, k) ==
    LET sk == derive_subkeys(k, ROUNDS)
    IN  IF sk.exc # "none" THEN sk
        ELSE Ok(join(decrypt_rounds(split_left(block), split_right(block), sk.val)))

decrypt_block(block, k) ==
    LET sk == derive_subkeys(k, ROUNDS)
    IN  IF sk.exc # "none" THEN sk ELSE Ok(decrypt_with(block, sk.val))

flip_bit(value, bit_index) == xor(value, shl(1, bit_index))

bit_diff(a, b) == bit_count(xor(a, b))

(***************************************************************************)
(* Modes of operation                                                      *)
(***************************************************************************)
RECURSIVE cbc_encrypt_loop(_, _, _, _)
cbc_encrypt_loop(blocks, k, prv, ciphertext) ==
    IF blocks = <<>> THEN Ok(ciphertext)
    ELSE LET c == encrypt_block(xor(Head(blocks), prv), k)
         IN  IF c.exc # "none" THEN c
             ELSE cbc_encrypt_loop(Tail(blocks), k, c.val, Append(ciphertext, c.val))

\* cbc_encrypt that does not chain the first block with the iv
cbc_encrypt_skip_iv(blocks, k, v) == cbc_encrypt_loop(blocks, k, 0, <<>>)

cbc_encrypt(blocks, k, v) == cbc_encrypt_loop(blocks, k, v, <<>>)

RECURSIVE cbc_decrypt_loop(_, _, _, _)
cbc_decrypt_loop(blocks, k, prv, plaintext) ==
    IF blocks = <<>> THEN Ok(plaintext)
    ELSE LET d == decrypt_block(Head(blocks), k)
         IN  IF d.exc # "none" THEN d
             ELSE cbc_decrypt_loop(Tail(blocks), k, Head(blocks),
                                   Append(plaintext, xor(d.val, prv)))

\* cbc_decrypt that chains on the decrypted block instead of the ciphertext block
RECURSIVE cbc_decrypt_chain_plain_loop(_, _, _, _)
cbc_decrypt_chain_plain_loop(blocks, k, prv, plaintext) ==
    IF blocks = <<>> THEN Ok(plaintext)
    ELSE LET d == decrypt_block(Head(blocks), k)
         IN  IF d.exc # "none" THEN d
             ELSE cbc_decrypt_chain_plain_loop(Tail(blocks), k, xor(d.val, prv),
                                               Append(plaintext, xor(d.val, prv)))

cbc_decrypt_chain_plain(blocks, k, v) ==
    cbc_decrypt_chain_plain_loop(blocks, k, v, <<>>)

\* cbc_decrypt whose chaining value accumulates every earlier ciphertext block
RECURSIVE cbc_decrypt_accumulating_loop(_, _, _, _)
cbc_decrypt_accumulating_loop(blocks, k, prv, plaintext) ==
    IF blocks = <<>> THEN Ok(plaintext)
    ELSE LET d == decrypt_block(Head(blocks), k)
         IN  IF d.exc # "none" THEN d
             ELSE cbc_decrypt_accumulating_loop(Tail(blocks), k,
                                                xor(prv, Head(blocks)),
                                                Append(plaintext, xor(d.val, prv)))

cbc_decrypt_accumulating(blocks, k, v) ==
    cbc_decrypt_accumulating_loop(blocks, k, v, <<>>)

cbc_decrypt(blocks, k, v) == cbc_decrypt_loop(blocks, k, v, <<>>)

RECURSIVE cfb_encrypt_loop(_, _, _, _)
cfb_encrypt_loop(blocks, k, feedback, ciphertext) ==
    IF blocks = <<>> THEN Ok(ciphertext)
    ELSE LET keystream == encrypt_block(feedback, k)
         IN  IF keystream.exc # "none" THEN keystream
             ELSE LET c == xor(Head(blocks), keystream.val)
                  IN  cfb_encrypt_loop(Tail(blocks), k, c, Append(ciphertext, c))

cfb_encrypt(blocks, k, v) == cfb_encrypt_loop(blocks, k, v, <<>>)

RECURSIVE cfb_decrypt_loop(_, _, _, _)
cfb_decrypt_loop(blocks, k, feedback, plaintext) ==
    IF blocks = <<>> THEN Ok(plaintext)
    ELSE LET keystream == encrypt_block(feedback, k)
         IN  IF keystream.exc # "none" THEN keystream
             ELSE cfb_decrypt_loop(Tail(blocks), k, Head(blocks),
                                   Append(plaintext, xor(Head(blocks), keystream.val)))

\* cfb_decrypt that regenerates the keystream with decrypt_block
RECURSIVE cfb_decrypt_by_decrypt_block_loop(_, _, _, _)
cfb_decrypt_by_decrypt_block_loop(blocks, k, feedback, plaintext) ==
    IF blocks = <<>> THEN Ok(plaintext)
    ELSE LET keystream == decrypt_block(feedback, k)
         IN  IF keystream.exc # "none" THEN keystream
             ELSE cfb_decrypt_by_decrypt_block_loop(Tail(blocks), k, Head(blocks),
                      Append(plaintext, xor(Head(blocks), keystream.val)))

cfb_decrypt_by_decrypt_block(blocks, k, v) ==
    cfb_decrypt_by_decrypt_block_loop(blocks, k, v, <<>>)

\* cfb_decrypt that never updates the feedback
RECURSIVE cfb_decrypt_stale_feedback_loop(_, _, _, _)
cfb_decrypt_stale_feedback_loop(blocks, k, feedback, plaintext) ==
    IF blocks = <<>> THEN Ok(plaintext)
    ELSE LET keystream == encrypt_block(feedback, k)
         IN  IF keystream.exc # "none" THEN keystream
             ELSE cfb_decrypt_stale_feedback_loop(Tail(blocks), k, feedback,
                      Append(plaintext, xor(Head(blocks), keystream.val)))

cfb_decrypt_stale_feedback(blocks, k, v) ==
    cfb_decrypt_stale_feedback_loop(blocks, k, v, <<>>)

cfb_decrypt(blocks, k, v) == cfb_decrypt_loop(blocks, k, v, <<>>)

(***************************************************************************)
(* Error propagation analysis                                              *)
(***************************************************************************)
ModeReport(mode, bit_flip_index, p1_diff, p2_diff, explanation) ==
    [mode |-> mode, bit_flip_index |-> bit_flip_index,
     p1_diff |-> p1_diff, p2_diff |-> p2_diff, explanation |-> explanation]

\* the two lines of each explanation
cbc_explanation ==
    <<"flip sits inside Dk(C1), so diffusion destroys essentially the whole block.",
      "only the XOR with C1 handles P2, so a single bit error leaks straight through.">>

cfb_explanation ==
    <<"C1 feeds P1' via XOR only, so the corruption remains confined to that bit.",
      "C1 is the feedback input to Ek for block 2, so the keystream changes everywhere.">>

analyze_cbc(k, v, p_blocks) ==
    LET c_blocks == cbc_encrypt(p_blocks, k, v)
    IN  IF c_blocks.exc # "none" THEN c_blocks
        ELSE LET clean_plain == cbc_decrypt(c_blocks.val, k, v)
             IN  IF clean_plain.exc # "none" THEN clean_plain
                 ELSE IF Len(c_blocks.val) < 2 THEN Raise("IndexError")
                 ELSE LET corrupted_c1 == flip_bit(c_blocks.val[1], BIT_TO_FLIP)
                          corrupted_plain ==
                              cbc_decrypt(<<corrupted_c1, c_blocks.val[2]>>, k, v)
                      IN  IF corrupted_plain.exc # "none" THEN corrupted_plain
                          ELSE Ok(ModeReport("CBC mode", BIT_TO_FLIP,
                                   bit_diff(clean_plain.val[1], corrupted_plain.val[1]),
                                   bit_diff(clean_plain.val[2], corrupted_plain.val[2]),
                                   cbc_explanation))

analyze_cfb(k, v, p_blocks) ==
    LET c_blocks == cfb_encrypt(p_blocks, k, v)
    IN  IF c_blocks.exc # "none" THEN c_blocks
        ELSE LET clean_plain == cfb_decrypt(c_blocks.val, k, v)
             IN  IF clean_plain.exc # "none" THEN clean_plain
                 ELSE IF Len(c_blocks.val) < 2 THEN Raise("IndexError")
                 ELSE LET corrupted_c1 == flip_bit(c_blocks.val[1], BIT_TO_FLIP)
                          corrupted_plain ==
                              cfb_decrypt(<<corrupted_c1, c_blocks.val[2]>>, k, v)
                      IN  IF corrupted_plain.exc # "none" THEN corrupted_plain
                          ELSE Ok(ModeReport("CFB mode", BIT_TO_FLIP,
                                   bit_diff(clean_plain.val[1], corrupted_plain.val[1]),
                                   bit_diff(clean_plain.val[2], corrupted_plain.val[2]),
                                   cfb_explanation))

(***************************************************************************)
(* Inputs                                                                  *)
(***************************************************************************)
AllBlocks == 0..(2^BLOCK_SIZE - 1)
\* integers that do not fit in a block
WideInputs == {2^BLOCK_SIZE + 5, 2^(BLOCK_SIZE + 1) + 1}
BlockInputs == AllBlocks \cup WideInputs
KeyInputs == {1, 2^BLOCK_SIZE - 2, 2^BLOCK_SIZE + 1}
IvInputs == {2^HALF_BLOCK + 1, 2^BLOCK_SIZE + 2}
SeqBlockInputs == {1, 2^BLOCK_SIZE - 2, 2^BLOCK_SIZE + 3}
SeqInputs == UNION {[1..n -> SeqBlockInputs] : n \in 0..MaxLen}
RoundInputs == (-1)..MaxRounds
BitIndexes == 0..(BLOCK_SIZE - 1)

NoCall == [op |-> "none"]
ThisCall == [op |-> op, key |-> key, iv |-> iv, arg |-> arg, ret |-> ret]

Init ==
    /\ hsel \in 0..MaxHash
    /\ op = "none"
    /\ key = 0
    /\ iv = 0
    /\ arg = <<>>
    /\ bit = -1
    /\ ret = Ok(<<>>)
    /\ prev = NoCall

(***************************************************************************)
(* Calls made on fresh arguments                                           *)
(***************************************************************************)
Fresh(name, k, v, a, r) ==
    /\ op' = name
    /\ key' = k
    /\ iv' = v
    /\ arg' = a
    /\ ret' = r
    /\ UNCHANGED <<hsel, bit, prev>>

Call_derive_subkeys ==
    \E k \in KeyInputs, n \in RoundInputs :
        /\ op = "none"
        /\ Fresh("derive_subkeys", k, 0, n, derive_subkeys(k, n))

Call_encrypt_block ==
    \E b \in BlockInputs, k \in KeyInputs :
        /\ op = "none"
        /\ Fresh("encrypt_block", k, 0, b, encrypt_block(b, k))

Call_decrypt_block ==
    \E b \in BlockInputs, k \in KeyInputs :
        /\ op = "none"
        /\ Fresh("decrypt_block", k, 0, b, decrypt_block(b, k))

Call_cbc_encrypt ==
    \E blocks \in SeqInputs, k \in KeyInputs, v \in IvInputs :
        /\ op = "none"
        /\ Fresh("cbc_encrypt", k, v, blocks, cbc_encrypt(blocks, k, v))

Call_cbc_decrypt ==
    \E blocks \in SeqInputs, k \in KeyInputs, v \in IvInputs :
        /\ op = "none"
        /\ Fresh("cbc_decrypt", k, v, blocks, cbc_decrypt(blocks, k, v))

Call_cfb_encrypt ==
    \E blocks \in SeqInputs, k \in KeyInputs, v \in IvInputs :
        /\ op = "none"
        /\ Fresh("cfb_encrypt", k, v, blocks, cfb_encrypt(blocks, k, v))

Call_cfb_decrypt ==
    \E blocks \in SeqInputs, k \in KeyInputs, v \in IvInputs :
        /\ op = "none"
        /\ Fresh("cfb_decrypt", k, v, blocks, cfb_decrypt(blocks, k, v))

Call_analyze_cbc ==
    \E blocks \in SeqInputs, k \in KeyInputs, v \in IvInputs :
        /\ op = "none"
        /\ Fresh("analyze_cbc", k, v, blocks, analyze_cbc(k, v, blocks))

Call_analyze_cfb ==
    \E blocks \in SeqInputs, k \in KeyInputs, v \in IvInputs :
        /\ op = "none"
        /\ Fresh("analyze_cfb", k, v, blocks, analyze_cfb(k, v, blocks))

(***************************************************************************)
(* Calls made on the result of the call before, with the same key and iv   *)
(***************************************************************************)
Then(name, a, r) ==
    /\ op' = name
    /\ arg' = a
    /\ ret' = r
    /\ prev' = ThisCall
    /\ UNCHANGED <<hsel, key, iv>>

\* decrypt what encrypt_block returned
Then_decrypt_block ==
    /\ op = "encrypt_block"
    /\ ret.exc = "none"
    /\ Then("decrypt_block", ret.val, decrypt_block(ret.val, key))
    /\ UNCHANGED bit

\* decrypt what cbc_encrypt returned
Then_cbc_decrypt ==
    /\ op = "cbc_encrypt"
    /\ ret.exc = "none"
    /\ Then("cbc_decrypt", ret.val, cbc_decrypt(ret.val, key, iv))
    /\ UNCHANGED bit

\* decrypt what cfb_encrypt returned
Then_cfb_decrypt ==
    /\ op = "cfb_encrypt"
    /\ ret.exc = "none"
    /\ Then("cfb_decrypt", ret.val, cfb_decrypt(ret.val, key, iv))
    /\ UNCHANGED bit

\* the ciphertext with bit i of its first block flipped
Flipped(blocks, i) == <<flip_bit(blocks[1], i)>> \o Tail(blocks)

\* the ciphertext with BIT_TO_FLIP flipped in each block whose index is in S
Corrupted(blocks, S) ==
    [j \in 1..Len(blocks) |->
        IF j \in S THEN flip_bit(blocks[j], BIT_TO_FLIP) ELSE blocks[j]]

\* after the clean decryption of a ciphertext cbc_encrypt produced, decrypt
\* it again with one bit of its first block flipped
Flip_cbc_decrypt ==
    /\ op = "cbc_decrypt"
    /\ prev.op = "cbc_encrypt"
    /\ ret.exc = "none"
    /\ Len(arg) >= 1
    /\ \E i \in BitIndexes :
        /\ Then("cbc_decrypt", Flipped(arg, i), cbc_decrypt(Flipped(arg, i), key, iv))
        /\ bit' = i

Flip_cfb_decrypt ==
    /\ op = "cfb_decrypt"
    /\ prev.op = "cfb_encrypt"
    /\ ret.exc = "none"
    /\ Len(arg) >= 1
    /\ \E i \in BitIndexes :
        /\ Then("cfb_decrypt", Flipped(arg, i), cfb_decrypt(Flipped(arg, i), key, iv))
        /\ bit' = i

\* after decrypting a ciphertext, decrypt it again with some blocks changed
Corrupt_cbc_decrypt ==
    /\ op = "cbc_decrypt"
    /\ prev.op = "none"
    /\ ret.exc = "none"
    /\ \E S \in (SUBSET (1..Len(arg))) \ {{}} :
        /\ Then("cbc_decrypt", Corrupted(arg, S), cbc_decrypt(Corrupted(arg, S), key, iv))
        /\ UNCHANGED bit

\* the caller drops the results
Reset ==
    /\ op # "none"
    /\ op' = "none"
    /\ key' = 0
    /\ iv' = 0
    /\ arg' = <<>>
    /\ bit' = -1
    /\ ret' = Ok(<<>>)
    /\ prev' = NoCall
    /\ UNCHANGED hsel

Next ==
    \/ Call_derive_subkeys
    \/ Call_encrypt_block
    \/ Call_decrypt_block
    \/ Call_cbc_encrypt
    \/ Call_cbc_decrypt
    \/ Call_cfb_encrypt
    \/ Call_cfb_decrypt
    \/ Call_analyze_cbc
    \/ Call_analyze_cfb
    \/ Then_decrypt_block
    \/ Then_cbc_decrypt
    \/ Then_cfb_decrypt
    \/ Flip_cbc_decrypt
    \/ Flip_cfb_decrypt
    \/ Corrupt_cbc_decrypt
    \/ Reset

Spec == Init /\ [][Next]_vars

(***************************************************************************)
(* Properties                                                              *)
(***************************************************************************)
Fits(v) == to_bytes_fits(v, BLOCK_SIZE)
AllFit(blocks) == \A j \in 1..Len(blocks) : Fits(blocks[j])
BlockOps == {"encrypt_block", "decrypt_block"}
ModeOps == {"cbc_encrypt", "cbc_decrypt", "cfb_encrypt", "cfb_decrypt"}
AnalyzeOps == {"analyze_cbc", "analyze_cfb"}
Returned == ret.exc = "none"

\* C1: decrypt_block applied, under the same key, to what encrypt_block
\* returned for a block of block width returns that block; and the round loops
\* invert each other under a schedule of any length >= 1, whatever the digest.
C1_BlockRoundTrip ==
    /\ (op = "decrypt_block" /\ prev.op = "encrypt_block" /\ Fits(prev.arg))
            => (Returned /\ ret.val = prev.arg)
    /\ (op = "derive_subkeys" /\ Returned /\ Len(ret.val) >= 1)
            => \A b \in AllBlocks :
                   decrypt_with(encrypt_with(b, ret.val), ret.val) = b

C1_Witness ==
    /\ op = "decrypt_block"
    /\ prev.op = "encrypt_block"
    /\ Fits(prev.arg)
    /\ prev.ret.val # prev.arg
    /\ ret.val = prev.arg

\* C2: for a key and an iv of block width and a non-empty sequence of blocks of
\* block width, cbc_decrypt of what cbc_encrypt returned, and cfb_decrypt of what
\* cfb_encrypt returned, under the same key and iv, is the sequence itself.
C2_ModeRoundTrip ==
    (/\ \/ op = "cbc_decrypt" /\ prev.op = "cbc_encrypt"
        \/ op = "cfb_decrypt" /\ prev.op = "cfb_encrypt"
     /\ Len(prev.arg) >= 1
     /\ AllFit(prev.arg)
     /\ Fits(iv))
        => (Returned /\ ret.val = prev.arg)

C2_Witness ==
    /\ op = "cbc_decrypt"
    /\ prev.op = "cbc_encrypt"
    /\ Len(prev.arg) >= 2
    /\ AllFit(prev.arg)
    /\ Fits(iv)
    /\ prev.ret.val # prev.arg
    /\ ret.val = prev.arg

\* C3: with bit i of the first block of a two-block CBC ciphertext flipped,
\* cbc_decrypt returns a second block that differs from the clean one in bit i
\* and in no other bit, and a first block that differs from the clean one in at
\* least one bit; analyze_cbc reports these distances for i = BIT_TO_FLIP.
C3_CbcErrorPropagation ==
    /\ (op = "cbc_decrypt" /\ bit >= 0 /\ Len(arg) = 2)
            => /\ Returned
               /\ xor(prev.ret.val[2], ret.val[2]) = 2^bit
               /\ bit_diff(prev.ret.val[2], ret.val[2]) = 1
               /\ bit_diff(prev.ret.val[1], ret.val[1]) >= 1
               /\ bit = BIT_TO_FLIP =>
                      LET report == analyze_cbc(key, iv, prev.ret.val).val
                      IN  /\ report.p1_diff = bit_diff(prev.ret.val[1], ret.val[1])
                          /\ report.p2_diff = bit_diff(prev.ret.val[2], ret.val[2])
    /\ (op = "analyze_cbc" /\ Returned /\ Len(arg) = 2)
            => /\ ret.val.bit_flip_index = BIT_TO_FLIP
               /\ ret.val.p1_diff >= 1
               /\ ret.val.p2_diff = 1

C3_Witness ==
    /\ op = "cbc_decrypt"
    /\ bit = BIT_TO_FLIP
    /\ Len(arg) = 2
    /\ bit_diff(prev.ret.val[1], ret.val[1]) >= 2
    /\ bit_diff(prev.ret.val[2], ret.val[2]) = 1

\* C4: with bit i of the first block of a two-block CFB ciphertext flipped,
\* cfb_decrypt returns a first block that differs from the clean one in bit i
\* and in no other bit, and a second block that differs from the clean one in
\* at least one bit; analyze_cfb reports these distances for i = BIT_TO_FLIP.
C4_CfbErrorPropagation ==
    /\ (op = "cfb_decrypt" /\ bit >= 0 /\ Len(arg) = 2)
            => /\ Returned
               /\ xor(prev.ret.val[1], ret.val[1]) = 2^bit
               /\ bit_diff(prev.ret.val[1], ret.val[1]) = 1
               /\ bit_diff(prev.ret.val[2], ret.val[2]) >= 1
               /\ bit = BIT_TO_FLIP =>
                      LET report == analyze_cfb(key, iv, prev.ret.val).val
                      IN  /\ report.p1_diff = bit_diff(prev.ret.val[1], ret.val[1])
                          /\ report.p2_diff = bit_diff(prev.ret.val[2], ret.val[2])
    /\ (op = "analyze_cfb" /\ Returned /\ Len(arg) = 2)
            => /\ ret.val.bit_flip_index = BIT_TO_FLIP
               /\ ret.val.p1_diff = 1
               /\ ret.val.p2_diff >= 1

C4_Witness ==
    /\ op = "cfb_decrypt"
    /\ bit = BIT_TO_FLIP
    /\ Len(arg) = 2
    /\ bit_diff(prev.ret.val[1], ret.val[1]) = 1
    /\ bit_diff(prev.ret.val[2], ret.val[2]) >= 2

\* C5: a call of encrypt_block, decrypt_block or a mode with a block, key or iv
\* that does not fit the block width raises and returns nothing.
C5_InvalidBlockWidth ==
    /\ (op \in BlockOps /\ (~Fits(arg) \/ ~Fits(key))) => ~Returned
    /\ (op \in ModeOps /\ (~AllFit(arg) \/ ~Fits(key) \/ ~Fits(iv))) => ~Returned

\* C6: an analysis called with a plaintext of any length but 2 raises and
\* returns no report.
C6_SequenceLengthMismatch ==
    (op \in AnalyzeOps /\ Len(arg) # 2) => ~Returned

\* C7: derive_subkeys raises for a round count of zero or less, and for a round
\* count n >= 1 (and a key of block width) returns n subkeys of half-block width.
C7_EmptyKeySchedule ==
    op = "derive_subkeys" =>
        /\ arg <= 0 => ~Returned
        /\ (arg >= 1 /\ Fits(key)) =>
               /\ Returned
               /\ Len(ret.val) = arg
               /\ \A j \in 1..arg : ret.val[j] \in 0..HALF_MASK

\* C8: each mode returns a sequence as long as its input whenever the key has
\* block width; an empty input returns the empty sequence and raises nothing;
\* a one-block input is chained with the iv.
C8_ModeLength ==
    op \in ModeOps =>
        /\ Fits(key) => Returned
        /\ Returned => Len(ret.val) = Len(arg)
        /\ Len(arg) = 0 => ret = Ok(<<>>)
        /\ (op = "cbc_encrypt" /\ Len(arg) = 1 /\ Returned)
               => ret.val = <<encrypt_block(xor(arg[1], iv), key).val>>
        /\ (op = "cfb_encrypt" /\ Len(arg) = 1 /\ Returned)
               => ret.val = <<xor(arg[1], encrypt_block(iv, key).val)>>

C8_Witness ==
    /\ op = "cbc_encrypt"
    /\ Len(arg) = 1
    /\ Returned
    /\ ret.val = <<encrypt_block(xor(arg[1], iv), key).val>>
    /\ ret.val # <<encrypt_block(arg[1], key).val>>

\* C9: two cbc_decrypt calls under the same key and iv on ciphertexts of the same
\* length return the same block i whenever the ciphertexts agree on blocks i and
\* i-1 (on block 1 alone for i = 1).
C9_CbcDecryptLocality ==
    (op = "cbc_decrypt" /\ prev.op = "cbc_decrypt" /\ Returned)
        => /\ prev.key = key /\ prev.iv = iv /\ Len(prev.arg) = Len(arg)
           /\ \A i \in 1..Len(arg) :
                  (arg[i] = prev.arg[i] /\ (i = 1 \/ arg[i - 1] = prev.arg[i - 1]))
                      => ret.val[i] = prev.ret.val[i]

C9_Witness ==
    /\ op = "cbc_decrypt"
    /\ prev.op = "cbc_decrypt"
    /\ Len(arg) = 3
    /\ arg[1] # prev.arg[1]
    /\ arg[2] = prev.arg[2]
    /\ arg[3] = prev.arg[3]
    /\ ret.val[1] # prev.ret.val[1]
    /\ ret.val[2] # prev.ret.val[2]
    /\ ret.val[3] = prev.ret.val[3]

\* C10: every block returned by encrypt_block and decrypt_block, and every block
\* of a sequence returned by a mode, lies in [0, 2^BLOCK_SIZE), whatever the
\* width of the arguments.
C10_BlockWidth ==
    /\ (op \in BlockOps /\ Returned) => Fits(ret.val)
    /\ (op \in ModeOps /\ Returned) => AllFit(ret.val)

====
